---------------------------- MODULE Spec2Model ----------------------------
(*************************************************************************)
(* The pharmacy-dispatch (devolution) QR-scan handler of the medication  *)
(* tracking application, modelled as a state machine over the shared     *)
(* store: POST /api/qr-scan/pharmacy-dispatch-devolution, run by several *)
(* concurrent requests, next to the nurse's status updates.              *)
(*************************************************************************)
EXTENDS Naturals, FiniteSets

(* ----------------------------- bounds -------------------------------- *)

\* number of MedicationProcess rows in the store
NumProcs == 3
\* number of dispatch requests
MaxCalls == 2
\* number of status updates sent by nurses
MaxNurse == 1
\* number of store operations that may throw
MaxFail == 1

ProcIds == 1 .. NumProcs
Calls == 1 .. MaxCalls

NONE == "none"

(* --------------------------- reference data -------------------------- *)

\* prisma.line: the rows of the Line table (findUnique by id)
LineTable ==
    { [id |-> "L1", displayName |-> "Linea 1"],
      [id |-> "L2", displayName |-> "Linea 2"] }

\* prisma.qRCode: the rows of the QRCode table (findUnique by qrId)
QRCodeTable ==
    { [id |-> "qc1", qrId |-> "QR-DEV", type |-> "PHARMACY_DISPATCH_DEVOLUTION", isActive |-> TRUE],
      [id |-> "qc2", qrId |-> "QR-OFF", type |-> "PHARMACY_DISPATCH_DEVOLUTION", isActive |-> FALSE],
      [id |-> "qc3", qrId |-> "QR-ENT", type |-> "PHARMACY_DISPATCH", isActive |-> TRUE] }

\* prisma.dailyProcess: the tables the store may hold. date is the day
\* and whether it lies on the day's last millisecond (23:59:59.999);
\* createdAt orders the rows. Either the last batch is yesterday's, or
\* today has batches: two made during the day and one dated on its last
\* millisecond
DailyProcessTables ==
    { { [id |-> "d0", day |-> "yesterday", lastMs |-> FALSE, createdAt |-> 1] },
      { [id |-> "d1", day |-> "today", lastMs |-> FALSE, createdAt |-> 2],
        [id |-> "d2", day |-> "today", lastMs |-> FALSE, createdAt |-> 3],
        [id |-> "d3", day |-> "today", lastMs |-> TRUE, createdAt |-> 4] } }

\* prisma.profile: the users that have a profile row
ProfileTable == { "u1" }

\* patient.service.lineId: the line of the service a patient is in
PatientLine(p) == IF p <= 2 THEN "L1" ELSE "L2"

Steps == { "DEVOLUCION", "DISPENSACION" }

ProcessStatus ==
    { "PENDING", "IN_PROGRESS", "DISPATCHED_FROM_PHARMACY", "DELIVERED",
      "COMPLETED", "ERROR" }

(* ------------------------------ requests ----------------------------- *)

\* the session user and the JSON body of a request; temperature "0" is
\* the number 0, which the handler accepts (only undefined and null are
\* refused)
AllRequests ==
    [ user : { NONE, "u1", "u2" },
      qrId : { NONE, "QR-DEV", "QR-OFF", "QR-ENT", "QR-XXX" },
      temperature : { NONE, "0" },
      destinationLineId : { NONE, "L1", "L2", "L9" },
      transactionType : { NONE, "DEVOLUCION" } ]

BaseRequest ==
    [ user |-> "u1", qrId |-> "QR-DEV", temperature |-> "0",
      destinationLineId |-> "L1", transactionType |-> "DEVOLUCION" ]

\* the requests the model sends: every combination of token and line with
\* an authenticated caller and a complete body, and the base request with
\* one of the caller or body fields missing
Requests ==
    { r \in AllRequests :
        \/ /\ r.user = "u1"
           /\ r.qrId # NONE
           /\ r.temperature = "0"
           /\ r.destinationLineId # NONE
           /\ r.transactionType # NONE
        \/ \E f \in { "user", "qrId", "temperature", "destinationLineId",
                      "transactionType" } :
              /\ r[f] = NONE
              /\ \A g \in DOMAIN r : g # f => r[g] = BaseRequest[g]
        \/ r = [BaseRequest EXCEPT !.user = "u2"] }

NoRequest ==
    [ user |-> NONE, qrId |-> NONE, temperature |-> NONE,
      destinationLineId |-> NONE, transactionType |-> NONE ]

(* ----------------------------- responses ----------------------------- *)

Fail(code, kind) ==
    [status |-> code, kind |-> kind, patientsCount |-> 0, selectedLine |-> NONE]

Success(n, line) ==
    [status |-> 200, kind |-> "OK", patientsCount |-> n, selectedLine |-> line]

InternalError == Fail(500, "InternalError")

\* no response has been returned yet
NoResponse == Fail(0, NONE)

\* every check of the handler's first part passed
Pass == Fail(0, "pass")

(* ------------------------------- state ------------------------------- *)

VARIABLES
    dailyProcess,         \* prisma.dailyProcess: the set of rows
    medicationProcess,    \* prisma.medicationProcess: id -> row
    qRScanRecord,         \* prisma.qRScanRecord: the set of rows
    pc,                   \* call -> position in the handler
    req,                  \* call -> its request
    currentDailyProcess,  \* call -> id of the batch resolved for today
    devolutionProcesses,  \* call -> ids returned by findMany
    pendingUpdates,       \* call -> ids whose update is still in flight
    updatedProcesses,     \* call -> ids whose update has been applied
    pendingScans,         \* call -> ids whose scan record is in flight
    response,             \* call -> the response returned, or NoResponse
    nurseWrites,          \* nurse updates sent so far
    storeFailures,        \* store operations that have thrown so far
    interfered,           \* call -> another writer wrote while it ran
    quietSince,           \* calls finished with no store write since
    prev,                 \* call -> quietSince when its findMany returned
    seen                  \* call -> the statuses its findMany read

vars ==
    << dailyProcess, medicationProcess, qRScanRecord, pc, req, currentDailyProcess,
       devolutionProcesses, pendingUpdates, updatedProcesses, pendingScans,
       response, nurseWrites, storeFailures, interfered, quietSince, prev,
       seen >>

callVars ==
    << pc, req, currentDailyProcess, devolutionProcesses, pendingUpdates,
       updatedProcesses, pendingScans, response >>

\* the rows a MedicationProcess may start as: step, batch and status
ProcKinds ==
    { [step |-> "DEVOLUCION", dailyProcessId |-> "d2", status |-> "IN_PROGRESS"],
      [step |-> "DISPENSACION", dailyProcessId |-> "d2", status |-> "IN_PROGRESS"],
      [step |-> "DEVOLUCION", dailyProcessId |-> "d1", status |-> "IN_PROGRESS"],
      [step |-> "DEVOLUCION", dailyProcessId |-> "d2", status |-> "PENDING"],
      [step |-> "DEVOLUCION", dailyProcessId |-> "d2", status |-> "DELIVERED"],
      [step |-> "DEVOLUCION", dailyProcessId |-> "d0", status |-> "IN_PROGRESS"] }

\* the store at the start: every process belongs to a batch of the table;
\* process 1 is a devolution in progress of the table's latest batch
Init ==
    /\ dailyProcess \in DailyProcessTables
    /\ \E k \in [ProcIds -> ProcKinds] :
          /\ \A i \in ProcIds :
                \E d \in dailyProcess : d.id = k[i].dailyProcessId
          /\ k[1].step = "DEVOLUCION"
          /\ k[1].status = "IN_PROGRESS"
          /\ k[1].dailyProcessId \in { "d0", "d2" }
          /\ medicationProcess =
              [ i \in ProcIds |->
                  [ patientId |-> i,
                    dailyProcessId |-> k[i].dailyProcessId,
                    step |-> k[i].step,
                    status |-> k[i].status ] ]
    /\ qRScanRecord = {}
    /\ pc = [c \in Calls |-> "start"]
    /\ req = [c \in Calls |-> NoRequest]
    /\ currentDailyProcess = [c \in Calls |-> NONE]
    /\ devolutionProcesses = [c \in Calls |-> {}]
    /\ pendingUpdates = [c \in Calls |-> {}]
    /\ updatedProcesses = [c \in Calls |-> {}]
    /\ pendingScans = [c \in Calls |-> {}]
    /\ response = [c \in Calls |-> NoResponse]
    /\ nurseWrites = 0
    /\ storeFailures = 0
    /\ interfered = [c \in Calls |-> FALSE]
    /\ quietSince = {}
    /\ prev = [c \in Calls |-> {}]
    /\ seen = [c \in Calls |-> [i \in ProcIds |-> NONE]]

(* ------------------------ lookups (lines 44-78) ---------------------- *)

FindLine(id) == { l \in LineTable : l.id = id }

FindQRCode(qrId) == { q \in QRCodeTable : q.qrId = qrId }

\* date >= today 00:00:00.000 and date < today 23:59:59.999
InTodayWindow(d) == d.day = "today" /\ ~d.lastMs

\* findFirst ... orderBy createdAt desc
FindCurrentDailyProcess(table) ==
    { d \in table :
        /\ InTodayWindow(d)
        /\ \A e \in table : InTodayWindow(e) => e.createdAt <= d.createdAt }

QRCodeOk(r) ==
    \E q \in FindQRCode(r.qrId) :
        q.isActive /\ q.type = "PHARMACY_DISPATCH_DEVOLUTION"

\* the checks in the order token, daily batch, line
PrecheckTokenFirst(r, table) ==
    IF r.user = NONE THEN Fail(401, "Unauthorized")
    ELSE IF r.user \notin ProfileTable THEN Fail(404, "ProfileNotFound")
    ELSE IF r.qrId = NONE THEN Fail(400, "QrIdRequired")
    ELSE IF r.temperature = NONE THEN Fail(400, "TemperatureRequired")
    ELSE IF r.destinationLineId = NONE THEN Fail(400, "LineRequired")
    ELSE IF r.transactionType = NONE THEN Fail(400, "TransactionTypeRequired")
    ELSE IF ~QRCodeOk(r) THEN Fail(400, "InvalidToken")
    ELSE IF FindCurrentDailyProcess(table) = {} THEN Fail(400, "NoActiveBatch")
    ELSE IF FindLine(r.destinationLineId) = {} THEN Fail(400, "InvalidLine")
    ELSE Pass

\* the checks without the one of lines 40-42 (transaction type)
PrecheckNoTransactionType(r, table) ==
    IF r.user = NONE THEN Fail(401, "Unauthorized")
    ELSE IF r.user \notin ProfileTable THEN Fail(404, "ProfileNotFound")
    ELSE IF r.qrId = NONE THEN Fail(400, "QrIdRequired")
    ELSE IF r.temperature = NONE THEN Fail(400, "TemperatureRequired")
    ELSE IF r.destinationLineId = NONE THEN Fail(400, "LineRequired")
    ELSE IF FindLine(r.destinationLineId) = {} THEN Fail(400, "InvalidLine")
    ELSE IF ~QRCodeOk(r) THEN Fail(400, "InvalidToken")
    ELSE IF FindCurrentDailyProcess(table) = {} THEN Fail(400, "NoActiveBatch")
    ELSE Pass

\* the checks of lines 13-78 in the order the handler makes them; the
\* response of the first one that fails, or Pass
Precheck(r, table) ==
    IF r.user = NONE THEN Fail(401, "Unauthorized")
    ELSE IF r.user \notin ProfileTable THEN Fail(404, "ProfileNotFound")
    ELSE IF r.qrId = NONE THEN Fail(400, "QrIdRequired")
    ELSE IF r.temperature = NONE THEN Fail(400, "TemperatureRequired")
    ELSE IF r.destinationLineId = NONE THEN Fail(400, "LineRequired")
    ELSE IF r.transactionType = NONE THEN Fail(400, "TransactionTypeRequired")
    ELSE IF FindLine(r.destinationLineId) = {} THEN Fail(400, "InvalidLine")
    ELSE IF ~QRCodeOk(r) THEN Fail(400, "InvalidToken")
    ELSE IF FindCurrentDailyProcess(table) = {} THEN Fail(400, "NoActiveBatch")
    ELSE Pass

(* --------------------- the handler, step by step --------------------- *)

Running(c) == pc[c] \notin { "start", "done" }

\* a store write by call w (0: a nurse): every other running call has
\* been written under
Disturb(w) == [c \in Calls |-> interfered[c] \/ (c # w /\ Running(c))]

\* a request arrives: the requests are numbered in their order of arrival
Started(c) == pc[c] = "start" /\ \A b \in Calls : b < c => pc[b] # "start"

\* lines 9-78: session, profile, body, line, QR code and daily batch; the
\* tables these lookups read are written by no operation here, so the
\* lookups are one step
Validate(c, r) ==
    /\ Started(c)
    /\ req' = [req EXCEPT ![c] = r]
    /\ LET res == Precheck(r, dailyProcess) IN
          IF res = Pass
          THEN /\ pc' = [pc EXCEPT ![c] = "validated"]
               /\ currentDailyProcess' =
                     [currentDailyProcess EXCEPT
                         ![c] = (CHOOSE d \in FindCurrentDailyProcess(dailyProcess) : TRUE).id]
               /\ UNCHANGED << response, quietSince >>
          ELSE /\ pc' = [pc EXCEPT ![c] = "done"]
               /\ response' = [response EXCEPT ![c] = res]
               /\ quietSince' = quietSince \cup {c}
               /\ UNCHANGED currentDailyProcess
    /\ UNCHANGED << dailyProcess, medicationProcess, qRScanRecord, devolutionProcesses,
                    pendingUpdates, updatedProcesses, pendingScans,
                    nurseWrites, storeFailures, interfered, prev, seen >>

\* lines 166-171: the session or profile lookup of lines 9-20 throws,
\* before the body is read
ValidateFail(c) ==
    /\ Started(c)
    /\ storeFailures < MaxFail
    /\ storeFailures' = storeFailures + 1
    /\ pc' = [pc EXCEPT ![c] = "done"]
    /\ response' = [response EXCEPT ![c] = InternalError]
    /\ quietSince' = quietSince \cup {c}
    /\ UNCHANGED << dailyProcess, medicationProcess, qRScanRecord, currentDailyProcess,
                    devolutionProcesses, pendingUpdates, updatedProcesses,
                    pendingScans, nurseWrites, interfered, prev, seen, req >>

\* the where clause without its status filter
EligibleAnyStatus(batch, line) ==
    { i \in ProcIds :
        /\ medicationProcess[i].dailyProcessId = batch
        /\ medicationProcess[i].step = "DEVOLUCION"
        /\ PatientLine(medicationProcess[i].patientId) = line }

\* the where clause without its line filter
EligibleAnyLine(batch, line) ==
    { i \in ProcIds :
        /\ medicationProcess[i].dailyProcessId = batch
        /\ medicationProcess[i].step = "DEVOLUCION"
        /\ medicationProcess[i].status = "IN_PROGRESS" }

\* the where clause without its step filter
EligibleAnyStep(batch, line) ==
    { i \in ProcIds :
        /\ medicationProcess[i].dailyProcessId = batch
        /\ medicationProcess[i].status = "IN_PROGRESS"
        /\ PatientLine(medicationProcess[i].patientId) = line }

\* the where clause without its batch filter
EligibleAnyBatch(batch, line) ==
    { i \in ProcIds :
        /\ medicationProcess[i].step = "DEVOLUCION"
        /\ medicationProcess[i].status = "IN_PROGRESS"
        /\ PatientLine(medicationProcess[i].patientId) = line }

\* the where clause of lines 83-92
Eligible(batch, line) ==
    { i \in ProcIds :
        /\ medicationProcess[i].dailyProcessId = batch
        /\ medicationProcess[i].step = "DEVOLUCION"
        /\ medicationProcess[i].status = "IN_PROGRESS"
        /\ PatientLine(medicationProcess[i].patientId) = line }

LineName(id) == (CHOOSE l \in LineTable : l.id = id).displayName

\* lines 82-105 followed by lines 114-164, without the check of line 107:
\* an empty result goes through both Promise.all and returns success
FindManyNoEmptyCheck(c) ==
    /\ pc[c] = "validated"
    /\ LET found == Eligible(currentDailyProcess[c], req[c].destinationLineId) IN
          /\ devolutionProcesses' = [devolutionProcesses EXCEPT ![c] = found]
          /\ IF found = {}
             THEN /\ pc' = [pc EXCEPT ![c] = "done"]
                  /\ response' =
                        [response EXCEPT
                            ![c] = Success(0, LineName(req[c].destinationLineId))]
                  /\ quietSince' = quietSince \cup {c}
                  /\ UNCHANGED pendingUpdates
             ELSE /\ pc' = [pc EXCEPT ![c] = "updating"]
                  /\ pendingUpdates' = [pendingUpdates EXCEPT ![c] = found]
                  /\ UNCHANGED << response, quietSince >>
    /\ prev' = [prev EXCEPT ![c] = quietSince]
    /\ seen' = [seen EXCEPT ![c] = [i \in ProcIds |-> medicationProcess[i].status]]
    /\ UNCHANGED << dailyProcess, medicationProcess, qRScanRecord, req, currentDailyProcess,
                    updatedProcesses, pendingScans, nurseWrites, storeFailures,
                    interfered >>

\* lines 82-112: the eligible set, and the 400 when it is empty
FindMany(c) ==
    /\ pc[c] = "validated"
    /\ LET found == Eligible(currentDailyProcess[c], req[c].destinationLineId) IN
          /\ devolutionProcesses' = [devolutionProcesses EXCEPT ![c] = found]
          /\ IF found = {}
             THEN /\ pc' = [pc EXCEPT ![c] = "done"]
                  /\ response' = [response EXCEPT ![c] = Fail(400, "NoEligibleProcesses")]
                  /\ quietSince' = quietSince \cup {c}
                  /\ UNCHANGED pendingUpdates
             ELSE /\ pc' = [pc EXCEPT ![c] = "updating"]
                  /\ pendingUpdates' = [pendingUpdates EXCEPT ![c] = found]
                  /\ UNCHANGED << response, quietSince >>
    /\ prev' = [prev EXCEPT ![c] = quietSince]
    /\ seen' = [seen EXCEPT ![c] = [i \in ProcIds |-> medicationProcess[i].status]]
    /\ UNCHANGED << dailyProcess, medicationProcess, qRScanRecord, req, currentDailyProcess,
                    updatedProcesses, pendingScans, nurseWrites, storeFailures,
                    interfered >>

\* lines 166-171: findMany throws
FindManyFail(c) ==
    /\ pc[c] = "validated"
    /\ storeFailures < MaxFail
    /\ storeFailures' = storeFailures + 1
    /\ pc' = [pc EXCEPT ![c] = "done"]
    /\ response' = [response EXCEPT ![c] = InternalError]
    /\ quietSince' = quietSince \cup {c}
    /\ UNCHANGED << dailyProcess, medicationProcess, qRScanRecord, req, currentDailyProcess,
                    devolutionProcesses, pendingUpdates, updatedProcesses,
                    pendingScans, nurseWrites, interfered, prev, seen >>

\* line 121: the status an update writes
DispatchedStatus == "DISPATCHED_FROM_PHARMACY"

\* the update with a data clause that also moves the row to the next step
UpdateRowAndStep(mp, i) ==
    [mp EXCEPT ![i].status = DispatchedStatus, ![i].step = "DISPENSACION"]

\* lines 118-123: update where id, whatever the row's status is now
UpdateRow(mp, i) == [mp EXCEPT ![i].status = DispatchedStatus]

\* lines 116-138: one of the updates of Promise.all is applied; the last
\* one to settle starts the scan records (line 141) unless an update has
\* thrown, in which case the 500 has already been returned
UpdateOne(c, i) ==
    /\ pc[c] = "updating"
    /\ i \in pendingUpdates[c]
    /\ medicationProcess' = UpdateRow(medicationProcess, i)
    /\ updatedProcesses' = [updatedProcesses EXCEPT ![c] = @ \cup {i}]
    /\ pendingUpdates' = [pendingUpdates EXCEPT ![c] = @ \ {i}]
    /\ interfered' = Disturb(c)
    /\ IF pendingUpdates[c] = {i}
       THEN IF response[c] = InternalError
            THEN /\ pc' = [pc EXCEPT ![c] = "done"]
                 /\ quietSince' = {c}
                 /\ UNCHANGED pendingScans
            ELSE /\ pc' = [pc EXCEPT ![c] = "scanning"]
                 /\ pendingScans' = [pendingScans EXCEPT ![c] = devolutionProcesses[c]]
                 /\ quietSince' = {}
       ELSE /\ quietSince' = {}
            /\ UNCHANGED << pc, pendingScans >>
    /\ UNCHANGED << dailyProcess, qRScanRecord, req, currentDailyProcess, devolutionProcesses,
                    response, nurseWrites, storeFailures, prev, seen >>

\* lines 166-171: one of the updates throws: Promise.all rejects and the
\* handler returns 500, while the updates still in flight are not cancelled
UpdateFail(c, i) ==
    /\ pc[c] = "updating"
    /\ i \in pendingUpdates[c]
    /\ storeFailures < MaxFail
    /\ storeFailures' = storeFailures + 1
    /\ pendingUpdates' = [pendingUpdates EXCEPT ![c] = @ \ {i}]
    /\ response' = [response EXCEPT ![c] = InternalError]
    /\ IF pendingUpdates[c] = {i}
       THEN /\ pc' = [pc EXCEPT ![c] = "done"]
            /\ quietSince' = quietSince \cup {c}
       ELSE UNCHANGED << pc, quietSince >>
    /\ UNCHANGED << dailyProcess, medicationProcess, qRScanRecord, req, currentDailyProcess,
                    devolutionProcesses, updatedProcesses, pendingScans,
                    nurseWrites, interfered, prev, seen >>

\* the scan record with the scanned qrId in place of the QRCode row's id
ScanRecordWithQrId(c, i) ==
    [ id |-> << c, i >>,
      patientId |-> medicationProcess[i].patientId,
      qrCodeId |-> req[c].qrId,
      scannedBy |-> req[c].user,
      dailyProcessId |-> currentDailyProcess[c],
      temperature |-> req[c].temperature,
      destinationLineId |-> req[c].destinationLineId,
      transactionType |-> req[c].transactionType ]

\* lines 143-154: the scan record of one updated process; its id stands
\* for the row's generated key, one per call and element of the list
ScanRecord(c, i) ==
    [ id |-> << c, i >>,
      patientId |-> medicationProcess[i].patientId,
      qrCodeId |-> (CHOOSE q \in FindQRCode(req[c].qrId) : TRUE).id,
      scannedBy |-> req[c].user,
      dailyProcessId |-> currentDailyProcess[c],
      temperature |-> req[c].temperature,
      destinationLineId |-> req[c].destinationLineId,
      transactionType |-> req[c].transactionType ]

\* lines 141-164: one of the creates of Promise.all is applied; the last
\* one to settle returns the success response
ScanOne(c, i) ==
    /\ pc[c] = "scanning"
    /\ i \in pendingScans[c]
    /\ qRScanRecord' = qRScanRecord \cup { ScanRecord(c, i) }
    /\ pendingScans' = [pendingScans EXCEPT ![c] = @ \ {i}]
    /\ interfered' = Disturb(c)
    /\ IF pendingScans[c] = {i}
       THEN /\ pc' = [pc EXCEPT ![c] = "done"]
            /\ quietSince' = {c}
            /\ response' =
                  [response EXCEPT ![c] =
                      IF @ = InternalError THEN @
                      ELSE Success(Cardinality(updatedProcesses[c]),
                                   LineName(req[c].destinationLineId))]
       ELSE /\ quietSince' = {}
            /\ UNCHANGED << pc, response >>
    /\ UNCHANGED << dailyProcess, medicationProcess, req, currentDailyProcess,
                    devolutionProcesses, pendingUpdates, updatedProcesses,
                    nurseWrites, storeFailures, prev, seen >>

\* lines 166-171: one of the creates throws: the handler returns 500, the
\* creates still in flight are not cancelled
ScanFail(c, i) ==
    /\ pc[c] = "scanning"
    /\ i \in pendingScans[c]
    /\ storeFailures < MaxFail
    /\ storeFailures' = storeFailures + 1
    /\ pendingScans' = [pendingScans EXCEPT ![c] = @ \ {i}]
    /\ response' = [response EXCEPT ![c] = InternalError]
    /\ IF pendingScans[c] = {i}
       THEN /\ pc' = [pc EXCEPT ![c] = "done"]
            /\ quietSince' = quietSince \cup {c}
       ELSE UNCHANGED << pc, quietSince >>
    /\ UNCHANGED << dailyProcess, medicationProcess, qRScanRecord, req, currentDailyProcess,
                    devolutionProcesses, pendingUpdates, updatedProcesses,
                    nurseWrites, interfered, prev, seen >>

(* ------------------------- the nurse's updates ----------------------- *)

\* the statuses the hooks send: start and retry, complete, report error
NurseStatuses == { "IN_PROGRESS", "COMPLETED", "ERROR" }

\* the transitions the update route accepts
LegalTransition(from, to) ==
    \/ to = "IN_PROGRESS" /\ from \in { "PENDING", "ERROR" }
    \/ to = "ERROR" /\ from \notin { "COMPLETED", "ERROR" }
    \/ to = "COMPLETED" /\ from = "DELIVERED"

\* PATCH /api/medication-processes/:id with { status }
NurseUpdate(i, s) ==
    /\ nurseWrites < MaxNurse
    /\ LegalTransition(medicationProcess[i].status, s)
    /\ nurseWrites' = nurseWrites + 1
    /\ medicationProcess' = [medicationProcess EXCEPT ![i].status = s]
    /\ interfered' = Disturb(0)
    /\ quietSince' = {}
    /\ UNCHANGED << dailyProcess, qRScanRecord, callVars, storeFailures, prev, seen >>

(* --------------------------- specification --------------------------- *)

Next ==
    \/ \E c \in Calls, r \in Requests : Validate(c, r)
    \/ \E c \in Calls : ValidateFail(c)
    \/ \E c \in Calls : FindMany(c)
    \/ \E c \in Calls : FindManyFail(c)
    \/ \E c \in Calls, i \in ProcIds : UpdateOne(c, i)
    \/ \E c \in Calls, i \in ProcIds : UpdateFail(c, i)
    \/ \E c \in Calls, i \in ProcIds : ScanOne(c, i)
    \/ \E c \in Calls, i \in ProcIds : ScanFail(c, i)
    \/ \E i \in ProcIds, s \in NurseStatuses : NurseUpdate(i, s)

Spec == Init /\ [][Next]_vars

(* ------------------------------ properties --------------------------- *)

\* the scan records call c has created
ScansOf(c) == { s \in qRScanRecord : s.id[1] = c }

\* call c's findMany has returned
Queried(c) == seen[c][1] # NONE

Dispatched(i) == medicationProcess[i].status = "DISPATCHED_FROM_PHARMACY"

\* C1: when two dispatch calls with the same token and line run against
\* the same batch with no store failure and no nurse update, every record
\* either of them found eligible is transitioned by exactly one of them:
\* no record is updated by both, and the two reported patient counts add
\* up to the number of eligible records.
C1_TransitionedExactlyOnce ==
    \A a, b \in Calls :
        ( /\ a < b
          /\ pc[a] = "done" /\ pc[b] = "done"
          /\ Queried(a) /\ Queried(b)
          /\ req[a] = req[b]
          /\ currentDailyProcess[a] = currentDailyProcess[b]
          /\ storeFailures = 0 /\ nurseWrites = 0 )
        => /\ updatedProcesses[a] \cap updatedProcesses[b] = {}
           /\ response[a].patientsCount + response[b].patientsCount
                 = Cardinality(devolutionProcesses[a] \cup devolutionProcesses[b])

\* C2: dispatch writes DISPATCHED_FROM_PHARMACY to a record only if the
\* record's status is IN_PROGRESS at the moment of the write: a step that
\* moves a record to DISPATCHED_FROM_PHARMACY starts from IN_PROGRESS, so a
\* record another writer has moved to ERROR or COMPLETED keeps that status.
C2_WritesOnlyInProgress ==
    [][ \A i \in ProcIds :
          ( /\ medicationProcess'[i].status = "DISPATCHED_FROM_PHARMACY"
            /\ medicationProcess[i].status # "DISPATCHED_FROM_PHARMACY" )
          => medicationProcess[i].status = "IN_PROGRESS" ]_vars

\* C3: the status update and the scan record of a record are one unit:
\* once a call has ended, with or without a store failure part-way, the
\* records it has transitioned are exactly the records it has written a
\* scan record for.
C3_UpdateAndScanRecordAtomic ==
    \A c \in Calls :
        pc[c] = "done" =>
            \A i \in ProcIds :
                i \in updatedProcesses[c]
                    <=> (\E s \in ScansOf(c) : s.id = << c, i >>)

\* process i was in call c's eligible set when c's findMany read the
\* store: batch resolved for the call, step DEVOLUCION, status IN_PROGRESS,
\* patient on the destination line
WasEligible(c, i) ==
    /\ medicationProcess[i].dailyProcessId = currentDailyProcess[c]
    /\ medicationProcess[i].step = "DEVOLUCION"
    /\ seen[c][i] = "IN_PROGRESS"
    /\ PatientLine(medicationProcess[i].patientId) = req[c].destinationLineId

EligibleSet(c) == { i \in ProcIds : WasEligible(c, i) }

NoEligibleProcesses == Fail(400, "NoEligibleProcesses")

\* call b repeats call a: a succeeded with no other writer while it ran,
\* nothing was written between a's end and b's findMany, which returned,
\* and b carries the same token, line, transaction type and temperature in
\* the same batch
Repeats(b, a) ==
    /\ a # b
    /\ Queried(b)
    /\ a \in prev[b]
    /\ response[a].status = 200
    /\ ~interfered[a]
    /\ req[a] = req[b]
    /\ currentDailyProcess[a] = currentDailyProcess[b]

\* C4: when a dispatch is executed twice in succession with nothing in
\* between, the first call transitions its eligible set and the second
\* finds nothing eligible: it ends with the no-eligible-processes error,
\* updates no status and creates no scan record.
C4_RescanIdempotent ==
    \A a, b \in Calls :
        Repeats(b, a) =>
            /\ updatedProcesses[a] = EligibleSet(a)
            /\ EligibleSet(b) = {}
            /\ pc[b] = "done"
            /\ response[b] = NoEligibleProcesses
            /\ response[b].patientsCount = 0
            /\ updatedProcesses[b] = {}
            /\ ScansOf(b) = {}

C4_Witness ==
    \E a, b \in Calls :
        /\ Repeats(b, a)
        /\ Cardinality(updatedProcesses[a]) = 2
        /\ response[b] = NoEligibleProcesses

\* call c has ended, nothing has been written since, and no other writer
\* wrote and no store operation of c threw while it ran
RanAlone(c) ==
    /\ c \in quietSince
    /\ ~interfered[c]
    /\ response[c] # InternalError

\* the scan record the handler is to write for process i in call c
ExpectedScanRecord(c, i) ==
    [ id |-> << c, i >>,
      patientId |-> medicationProcess[i].patientId,
      qrCodeId |-> "qc1",
      scannedBy |-> "u1",
      dailyProcessId |-> "d2",
      temperature |-> req[c].temperature,
      destinationLineId |-> req[c].destinationLineId,
      transactionType |-> req[c].transactionType ]

\* C5: a dispatch that runs alone, with no store failure, on an eligible
\* set of n >= 1 records leaves all n records DISPATCHED_FROM_PHARMACY, has
\* written exactly n scan records, one per record's patient with the QR
\* code, caller, batch, temperature, line and transaction type of the
\* call, and reports n patients.
C5_SuccessfulDispatch ==
    \A c \in Calls :
        (RanAlone(c) /\ EligibleSet(c) # {}) =>
            /\ \A i \in EligibleSet(c) : Dispatched(i)
            /\ ScansOf(c) = { ExpectedScanRecord(c, i) : i \in EligibleSet(c) }
            /\ Cardinality(ScansOf(c)) = Cardinality(EligibleSet(c))
            /\ response[c].status = 200
            /\ response[c].patientsCount = Cardinality(EligibleSet(c))

C5_Witness ==
    \E c \in Calls :
        /\ RanAlone(c)
        /\ Cardinality(EligibleSet(c)) = 2
        /\ response[c].patientsCount = 2
        /\ Cardinality(ScansOf(c)) = 2

\* process i is on another line than the one call c dispatches to
OtherLine(c, i) ==
    PatientLine(medicationProcess[i].patientId) # req[c].destinationLineId

\* C6: a dispatch to line L updates no process, and writes no scan record
\* for a patient, of another line.
C6_IsolationByLine ==
    \A c \in Calls : \A i \in ProcIds :
        OtherLine(c, i) =>
            /\ i \notin updatedProcesses[c]
            /\ i \notin pendingUpdates[c]
            /\ \A s \in ScansOf(c) :
                  s.patientId # medicationProcess[i].patientId

C6_Witness ==
    \E c \in Calls : \E i \in ProcIds :
        /\ response[c].status = 200
        /\ OtherLine(c, i)
        /\ medicationProcess[i].dailyProcessId = currentDailyProcess[c]
        /\ medicationProcess[i].step = "DEVOLUCION"
        /\ seen[c][i] = "IN_PROGRESS"
        /\ medicationProcess[i].status = "IN_PROGRESS"

\* C7: the devolution dispatch updates no process whose step is not
\* DEVOLUCION: such a process is in no call's update list and never has
\* the status DISPATCHED_FROM_PHARMACY.
C7_IsolationByStep ==
    \A i \in ProcIds :
        medicationProcess[i].step # "DEVOLUCION" =>
            /\ ~Dispatched(i)
            /\ \A c \in Calls :
                  i \notin updatedProcesses[c] /\ i \notin pendingUpdates[c]

C7_Witness ==
    \E c \in Calls : \E i \in ProcIds :
        /\ response[c].status = 200
        /\ ~OtherLine(c, i)
        /\ medicationProcess[i].dailyProcessId = currentDailyProcess[c]
        /\ medicationProcess[i].step = "DISPENSACION"
        /\ seen[c][i] = "IN_PROGRESS"
        /\ medicationProcess[i].status = "IN_PROGRESS"

\* C8: a dispatch whose findMany reads a store with no eligible process
\* ends with the 400 no-eligible-processes error and has written nothing:
\* no status update, no scan record.
C8_EmptyEligibleSet ==
    \A c \in Calls :
        (Queried(c) /\ EligibleSet(c) = {}) =>
            /\ pc[c] = "done"
            /\ response[c] = NoEligibleProcesses
            /\ response[c].status = 400
            /\ updatedProcesses[c] = {}
            /\ pendingUpdates[c] = {}
            /\ ScansOf(c) = {}

C8_Witness ==
    \E c \in Calls :
        /\ Queried(c)
        /\ EligibleSet(c) = {}
        /\ response[c] = NoEligibleProcesses
        /\ \E i \in ProcIds : medicationProcess[i].status = "IN_PROGRESS"

\* the request of call c has a session user with a profile and a complete
\* body, and the call has returned from its checks
Checked(c) ==
    /\ pc[c] # "start"
    /\ response[c] # InternalError
    /\ req[c].user = "u1"
    /\ req[c].qrId # NONE
    /\ req[c].temperature # NONE
    /\ req[c].destinationLineId # NONE
    /\ req[c].transactionType # NONE

TokenValid(c) == req[c].qrId = "QR-DEV"

LineExists(c) == req[c].destinationLineId \in { "L1", "L2" }

BatchToday == \E d \in dailyProcess : d.day = "today" /\ ~d.lastMs

\* C9 as stated: the checks run in the order token, daily batch, line. A
\* request whose token is unregistered, inactive or of the wrong type gets
\* the invalid-token error, and one with a valid token and no batch for
\* today gets the no-active-batch error, whether the line exists or not.
C9_TokenBatchLineOrder ==
    \A c \in Calls :
        Checked(c) =>
            /\ ~TokenValid(c) => response[c].kind = "InvalidToken"
            /\ (TokenValid(c) /\ ~BatchToday) => response[c].kind = "NoActiveBatch"

\* C9 amended: the checks run in the order line, token, daily batch. A
\* request whose line does not exist gets the invalid-line error whatever
\* its token and the batch; one with an existing line and a bad token gets
\* the invalid-token error even with no batch for today; one with an
\* existing line, a valid token and no batch gets the no-active-batch
\* error; all three are 400s.
C9_LineTokenBatchOrder ==
    \A c \in Calls :
        Checked(c) =>
            /\ ~LineExists(c) => response[c] = Fail(400, "InvalidLine")
            /\ (LineExists(c) /\ ~TokenValid(c))
                  => response[c] = Fail(400, "InvalidToken")
            /\ (LineExists(c) /\ TokenValid(c) /\ ~BatchToday)
                  => response[c] = Fail(400, "NoActiveBatch")

C9_Witness ==
    \E a, b \in Calls :
        /\ Checked(a) /\ Checked(b)
        /\ ~BatchToday
        /\ ~LineExists(a) /\ ~TokenValid(a)
        /\ response[a].kind = "InvalidLine"
        /\ LineExists(b) /\ ~TokenValid(b)
        /\ response[b].kind = "InvalidToken"

\* C10: a dispatch updates only processes of the batch it resolved for
\* today, the latest batch dated today: a process of another batch is in
\* no call's update list and never DISPATCHED_FROM_PHARMACY, and every
\* scan record carries the resolved batch.
C10_IsolationByBatch ==
    /\ \A c \in Calls :
          pc[c] \in { "validated", "updating", "scanning" } =>
              currentDailyProcess[c] = "d2"
    /\ \A c \in Calls : \A s \in ScansOf(c) :
          s.dailyProcessId = currentDailyProcess[c] /\ s.dailyProcessId = "d2"
    /\ \A i \in ProcIds :
          medicationProcess[i].dailyProcessId # "d2" =>
              /\ ~Dispatched(i)
              /\ \A c \in Calls :
                    i \notin updatedProcesses[c] /\ i \notin pendingUpdates[c]

C10_Witness ==
    \E c \in Calls : \E i \in ProcIds :
        /\ response[c].status = 200
        /\ ScansOf(c) # {}
        /\ ~OtherLine(c, i)
        /\ medicationProcess[i].dailyProcessId = "d1"
        /\ medicationProcess[i].step = "DEVOLUCION"
        /\ seen[c][i] = "IN_PROGRESS"
        /\ medicationProcess[i].status = "IN_PROGRESS"

\* call c has written nothing: no status update applied or in flight, no
\* scan record created or in flight
WroteNothing(c) ==
    /\ updatedProcesses[c] = {}
    /\ pendingUpdates[c] = {}
    /\ pendingScans[c] = {}
    /\ ScansOf(c) = {}

ClientError(c) == response[c].status \in { 400, 401, 404 }

\* the request of call c, read by the handler, has one of the faults the
\* handler refuses: no session user, no profile, a missing body field, an
\* unknown line, a bad token, no batch for today, or nothing eligible
Refused(c) ==
    /\ pc[c] # "start"
    /\ response[c] # InternalError
    /\ \/ req[c].user # "u1"
       \/ req[c].qrId = NONE
       \/ req[c].temperature = NONE
       \/ req[c].destinationLineId = NONE
       \/ req[c].transactionType = NONE
       \/ ~LineExists(c)
       \/ ~TokenValid(c)
       \/ ~BatchToday
       \/ Queried(c) /\ EligibleSet(c) = {}

\* C11: a dispatch call that ends in a 4xx failure has written nothing,
\* and every refused request (unauthenticated, no profile, missing qrId,
\* temperature, line or transaction type, unknown line, bad token, no
\* batch for today, empty eligible set) ends in one: as long as every
\* call that has run ended so and no nurse has written, no process has
\* been dispatched and no scan record exists.
C11_ClientErrorWritesNothing ==
    /\ \A c \in Calls : ClientError(c) => (pc[c] = "done" /\ WroteNothing(c))
    /\ \A c \in Calls : Refused(c) => (ClientError(c) /\ WroteNothing(c))
    /\ ( /\ nurseWrites = 0
         /\ \A c \in Calls : pc[c] = "start" \/ ClientError(c) )
       => /\ qRScanRecord = {}
          /\ \A i \in ProcIds : ~Dispatched(i)

C11_Witness ==
    \E a, b \in Calls :
        /\ req[a].transactionType = NONE
        /\ response[a].status = 400
        /\ response[b] = NoEligibleProcesses
        /\ \E i \in ProcIds :
              /\ medicationProcess[i].status = "IN_PROGRESS"
              /\ medicationProcess[i].step = "DEVOLUCION"
              /\ medicationProcess[i].dailyProcessId = "d2"

\* C12: no step creates or deletes a MedicationProcess, changes a
\* process's patientId, step or dailyProcessId, or changes the DailyProcess
\* table; the scan records written stay as they are (the set only grows);
\* and a step of a dispatch call changes a status only to
\* DISPATCHED_FROM_PHARMACY.
C12_DispatchFrame ==
    [][ /\ DOMAIN medicationProcess' = DOMAIN medicationProcess
        /\ \A i \in DOMAIN medicationProcess :
              /\ medicationProcess'[i].patientId = medicationProcess[i].patientId
              /\ medicationProcess'[i].step = medicationProcess[i].step
              /\ medicationProcess'[i].dailyProcessId
                    = medicationProcess[i].dailyProcessId
              /\ ( /\ medicationProcess'[i].status # medicationProcess[i].status
                   /\ nurseWrites' = nurseWrites )
                 => medicationProcess'[i].status = "DISPATCHED_FROM_PHARMACY"
        /\ dailyProcess' = dailyProcess
        /\ qRScanRecord \subseteq qRScanRecord' ]_vars

C12_Witness ==
    \E a, b \in Calls :
        /\ a # b
        /\ pc[a] = "done" /\ pc[b] = "done"
        /\ ScansOf(a) # {} /\ ScansOf(b) # {}
        /\ \E i \in ProcIds :
              Dispatched(i) /\ medicationProcess[i].dailyProcessId = "d2"
        /\ \E i \in ProcIds : medicationProcess[i].dailyProcessId = "d1"

=============================================================================
